---------------------------- MODULE Spec2Model ----------------------------
(***************************************************************************)
(* Celestial position engine of AstroHack_2025: the result cache of        *)
(* planets_api (cache_result), and get_visible_planets.                    *)
(*                                                                         *)
(* Units.  Wall-clock time is in whole seconds.  Angles are integers in    *)
(* thousandths of a degree before rounding and hundredths of a degree      *)
(* after round(x, 2); magnitudes likewise (thousandths / hundredths).      *)
(***************************************************************************)
EXTENDS Integers, Sequences, FiniteSets, TLC

VARIABLES
    now,        \* time.time(): the wall clock, seconds
    files,      \* CACHE_DIR: cache key -> content of <key>.json
    calls,      \* cache key -> number of executions of the wrapped function
    ret,        \* the outcome of the last call of the wrapped function
    pc,         \* concurrent callers: caller -> its place in the wrapper
    loc,        \* concurrent callers: caller -> the wrapper's local variables
    PLANETS,    \* the catalog: the names of the PLANETS dict, insertion order
    phase,      \* "idle", or "returned" once get_visible_planets has ended
    req,        \* the arguments of the last get_visible_planets request
    sky,        \* what the ephemeris answered for each body in that request
    resp,       \* how the request ended: raised, time_obj, planets_data
    probe,      \* the last call of a helper function: name, arguments, result
    cache_dir,  \* whether the directory CACHE_DIR of planets_api exists
    astroFiles, \* CACHE_DIR of astronomy_utils: cache key -> <key>.json
    astroRet,   \* the outcome of the last call through astronomy_utils
    NEO_CACHE,  \* neo_api.NEO_CACHE: cache key -> (cache_time, data)
    feed        \* the outcome of the last call of get_neo_feed

cacheVars == <<now, files, calls, ret, cache_dir>>

concVars == <<pc, loc>>

planetVars == <<PLANETS, phase, req, sky, resp>>

astroVars == <<astroFiles, astroRet>>

neoVars == <<NEO_CACHE, feed>>

vars == <<now, files, calls, ret, pc, loc, PLANETS, phase, req, sky, resp,
          probe, cache_dir, astroFiles, astroRet, NEO_CACHE, feed>>

--------------------------------------------------------------------------
(* Bounds of the model *)

\* the clock stops advancing here
MaxTime == 602
\* the wrapped function is executed at most this often per key
MaxCalls == 2

--------------------------------------------------------------------------
(* planets_api: cache settings *)

CACHE_ENABLED == TRUE

CACHE_DURATION == 300

\* func.__name__ of the one function planets_api decorates
FuncName == "get_visible_planets"

\* what the wrapped function can hand back: opaque JSON payloads
Payloads == {"listA", "listB"}

\* the wrapped function raising (APIDataError)
Raise == "raise"

\* the argument lists the callers use: positional args, and keyword args as
\* the dict's items in the order the call gave them
CallShapes ==
    { [args |-> <<>>,   kwargs |-> << <<"latitude", 32>> >>],
      [args |-> <<32>>, kwargs |-> << >>] }

\* the order of the parameter names as strings, which sorted() goes by
ParamRank(name) ==
    CASE name = "above_horizon" -> 1
      [] name = "elevation" -> 2
      [] name = "latitude" -> 3
      [] name = "longitude" -> 4
      [] name = "show_coords" -> 5
      [] name = "time" -> 6

\* line 268: sorted(kwargs.items()); the names of a dict are distinct
SortedItems(kwargs) ==
    LET n == Len(kwargs)
        items == { kwargs[i] : i \in 1..n }
    IN CHOOSE s \in [1..n -> items] :
          /\ { s[i] : i \in 1..n } = items
          /\ \A i, j \in 1..n : i < j => ParamRank(s[i][1]) < ParamRank(s[j][1])

\* lines 268-274 without sorted(): the items in the order of the call
generate_cache_key_unsorted(func_name, args, kwargs) ==
    <<func_name, args, kwargs>>

\* _generate_cache_key, lines 255-274: the function name and the md5 digest
\* of str(args) + str(sorted(kwargs.items())).  str and md5 are taken as
\* one-to-one on the values used: the key is the triple itself.
generate_cache_key(func_name, args, kwargs) ==
    <<func_name, args, SortedItems(kwargs)>>

Keys == { generate_cache_key(FuncName, s.args, s.kwargs) : s \in CallShapes }

--------------------------------------------------------------------------
(* The content of a cache file.  json.dump streams the document to the     *)
(* file: first the 'result' part, then the '_cache_time' part.  A file     *)
(* holds both parts, or less when a dump did not finish.  rby and sby name *)
(* the caller that wrote each part (0: nobody).                            *)

NoPayload == "none"
NoStamp == -1

NoFile == [exists |-> FALSE, result |-> NoPayload, rby |-> 0,
           stamp |-> NoStamp, sby |-> 0]

\* open(cache_path, 'w'): the file exists and is empty
Truncated == [exists |-> TRUE, result |-> NoPayload, rby |-> 0,
              stamp |-> NoStamp, sby |-> 0]

\* a dump interrupted after the 'result' part
Partial(w, r) == [exists |-> TRUE, result |-> r, rby |-> w,
                  stamp |-> NoStamp, sby |-> 0]

\* a dump that ran to the end
Complete(w, r, t) == [exists |-> TRUE, result |-> r, rby |-> w,
                      stamp |-> t, sby |-> w]

\* json.load: a document is parsed only when both parts are there
Parses(f) == f.exists /\ f.rby # 0 /\ f.sby # 0

\* one whole document written by one caller
IsComplete(f) == Parses(f) /\ f.rby = f.sby

--------------------------------------------------------------------------
(* cache_result.wrapper, planets_api.py 210-250 *)

\* line 228, with '<' for '<=': an entry aged exactly CACHE_DURATION expires
IsFreshStrict(cache_time, current_time) ==
    current_time - cache_time < CACHE_DURATION

\* line 228: current_time - cache_time <= CACHE_DURATION
IsFresh(cache_time, current_time) ==
    current_time - cache_time <= CACHE_DURATION

\* lines 219-234, without the try/except around the read
LookupUnguarded(f, t, readOk) ==
    IF ~f.exists THEN "absent"
    ELSE IF ~readOk \/ ~Parses(f) THEN "error"
    ELSE IF IsFresh(f.stamp, t) THEN "fresh"
    ELSE "stale"

\* lines 219-234: what the lookup finds.  readOk is FALSE when open or read
\* fails (an OSError); both that and a document json.load rejects end in
\* the except branch, which only logs.
Lookup(f, t, readOk) ==
    IF ~f.exists THEN "absent"
    ELSE IF ~readOk THEN "unreadable"
    ELSE IF ~Parses(f) THEN "corrupt"
    ELSE IF IsFresh(f.stamp, t) THEN "fresh"
    ELSE "stale"

\* how the write of lines 240-248 can end
WriteOutcomes == {"ok", "open_fails", "dump_fails"}

\* lines 240-245 writing the old '_cache_time' back instead of time.time()
StoreKeepStamp(f, w, r, t, wr) ==
    CASE wr = "ok" -> Complete(w, r, IF f.stamp = NoStamp THEN t ELSE f.stamp)
      [] wr = "open_fails" -> f
      [] wr = "dump_fails" -> Partial(w, r)

\* lines 240-248: the file after the store.  open(.., 'w') empties the file
\* before json.dump writes; a dump that raises leaves what it wrote so far.
Store(f, w, r, t, wr) ==
    CASE wr = "ok" -> Complete(w, r, t)
      [] wr = "open_fails" -> f
      [] wr = "dump_fails" -> Partial(w, r)

\* the outcome of one call: the file afterwards and what the caller gets
Outcome(f, kind, seen, computed, result, stored) ==
    [file |-> f, kind |-> kind, seen |-> seen, computed |-> computed,
     result |-> result, stored |-> stored]

\* the wrapper with a hit that re-stamps the entry (a sliding expiry)
wrapperTouch(f, t, w, readOk, out, wr) ==
    LET look == Lookup(f, t, readOk) IN
    IF look = "fresh"
    THEN Outcome(Complete(f.rby, f.result, t), "hit", look, NoPayload,
                 f.result, "none")
    ELSE IF out = Raise
    THEN Outcome(f, "raise", look, Raise, NoPayload, "none")
    ELSE Outcome(Store(f, w, out, t, wr), "miss", look, out, out,
                 IF wr = "ok" THEN "ok" ELSE "failed")

\* the wrapper without its two try/except blocks: a failed read or a
\* failed write reaches the caller
wrapperUnguarded(f, t, w, readOk, out, wr) ==
    LET look == LookupUnguarded(f, t, readOk) IN
    IF look = "fresh"
    THEN Outcome(f, "hit", look, NoPayload, f.result, "none")
    ELSE IF look = "error"
    THEN Outcome(f, "raise", "unreadable", NoPayload, NoPayload, "none")
    ELSE IF out = Raise
    THEN Outcome(f, "raise", look, Raise, NoPayload, "none")
    ELSE IF wr # "ok"
    THEN Outcome(Store(f, w, out, t, wr), "raise", look, out, NoPayload,
                 "failed")
    ELSE Outcome(Store(f, w, out, t, wr), "miss", look, out, out, "ok")

\* the wrapper opening the cache file for writing before it runs the
\* function: a function that raises leaves an emptied file behind
wrapperOpenFirst(f, t, w, readOk, out, wr) ==
    LET look == Lookup(f, t, readOk) IN
    IF look = "fresh"
    THEN Outcome(f, "hit", look, NoPayload, f.result, "none")
    ELSE IF out = Raise
    THEN Outcome(IF wr = "open_fails" THEN f ELSE Truncated, "raise", look,
                 Raise, NoPayload, "none")
    ELSE Outcome(Store(f, w, out, t, wr), "miss", look, out, out,
                 IF wr = "ok" THEN "ok" ELSE "failed")

\* lines 210-250.  f: the file of the call's key, t: time.time(), w: the
\* caller, out: what func(*args, **kwargs) does when it is run.
wrapper(f, t, w, readOk, out, wr) ==
    IF ~CACHE_ENABLED
    THEN IF out = Raise
         THEN Outcome(f, "raise", "absent", Raise, NoPayload, "none")
         ELSE Outcome(f, "miss", "absent", out, out, "none")
    ELSE
    LET look == Lookup(f, t, readOk) IN
    IF look = "fresh"
    THEN Outcome(f, "hit", look, NoPayload, f.result, "none")
    ELSE IF out = Raise
    THEN Outcome(f, "raise", look, Raise, NoPayload, "none")
    ELSE Outcome(Store(f, w, out, t, wr), "miss", look, out, out,
                 IF wr = "ok" THEN "ok" ELSE "failed")

--------------------------------------------------------------------------
(* planets_api.py 60-187: the catalog built when the module is loaded *)

CoreBodies == <<"Sun", "Mercury", "Venus", "Mars", "Jupiter", "Saturn",
                "Uranus", "Neptune", "Moon">>

\* the optional bodies, in the order lines 141-184 insert them; each group
\* is present as a whole or not at all (one try/except KeyError per group)
OptionalGroups == <<"pluto", "jupiter", "saturn", "uranus", "neptune">>

GroupBodies(g) ==
    CASE g = "pluto" -> <<"Pluto">>
      [] g = "jupiter" -> <<"Io", "Europa", "Ganymede", "Callisto">>
      [] g = "saturn" -> <<"Titan", "Enceladus", "Mimas", "Dione", "Rhea",
                           "Iapetus">>
      [] g = "uranus" -> <<"Miranda", "Ariel", "Umbriel", "Titania",
                           "Oberon">>
      [] g = "neptune" -> <<"Triton", "Nereid">>

RECURSIVE AddGroups(_, _, _)
AddGroups(acc, i, avail) ==
    IF i > Len(OptionalGroups) THEN acc
    ELSE AddGroups(IF OptionalGroups[i] \in avail
                   THEN acc \o GroupBodies(OptionalGroups[i]) ELSE acc,
                   i + 1, avail)

\* PLANETS for an ephemeris that holds the optional groups in avail
Catalog(avail) == AddGroups(CoreBodies, 1, avail)

Names(catalog) == { catalog[i] : i \in 1..Len(catalog) }

--------------------------------------------------------------------------
(* get_visible_planets, planets_api.py 321-458 *)

\* round(x, 2): thousandths to hundredths, ties to the even hundredth
Round2(x) ==
    LET q == x \div 10
        r == x % 10
    IN IF r < 5 THEN q
       ELSE IF r > 5 THEN q + 1
       ELSE IF q % 2 = 0 THEN q ELSE q + 1

\* the values of the time argument: None, ISO 8601 strings (with a zone,
\* without one, one beyond the ephemeris' years), a string that is no ISO
\* 8601 time, datetime objects, and a value that is neither str nor datetime
TimeArgs == {"None", "iso_utc", "iso_naive", "iso_2100", "malformed",
             "datetime_utc", "datetime_naive", "number"}

\* lines 356-373 with the ValueError of fromisoformat left to propagate
ParseTimeStrict(time) ==
    CASE time = "None" -> [ok |-> TRUE, instant |-> "now"]
      [] time \in {"iso_utc", "iso_naive"} -> [ok |-> TRUE, instant |-> "T1"]
      [] time = "iso_2100" -> [ok |-> TRUE, instant |-> "T2100"]
      [] time = "malformed" -> [ok |-> FALSE, instant |-> "none"]
      [] time \in {"datetime_utc", "datetime_naive"} ->
            [ok |-> TRUE, instant |-> "T1"]
      [] time = "number" -> [ok |-> FALSE, instant |-> "none"]

\* lines 356-373: time_obj.  A naive time is taken as UTC; a string that
\* fromisoformat rejects is replaced by datetime.now (line 365-367); a value
\* without .tzinfo raises AttributeError (line 370).
ParseTime(time) ==
    CASE time = "None" -> [ok |-> TRUE, instant |-> "now"]
      [] time \in {"iso_utc", "iso_naive"} -> [ok |-> TRUE, instant |-> "T1"]
      [] time = "iso_2100" -> [ok |-> TRUE, instant |-> "T2100"]
      [] time = "malformed" -> [ok |-> TRUE, instant |-> "now"]
      [] time \in {"datetime_utc", "datetime_naive"} ->
            [ok |-> TRUE, instant |-> "T1"]
      [] time = "number" -> [ok |-> FALSE, instant |-> "none"]

\* the instants the loaded ephemeris (de421.bsp, line 63) covers
InRange(instant) == instant \in {"now", "T1"}

\* What the libraries answer for one body (lines 390-428).  ok: the
\* position was computed (line 390-395 did not raise); alt, az: alt.degrees
\* and az.degrees in thousandths; magOk, mag: planetary_magnitude returned
\* mag (thousandths); conOk, con: get_constellation returned con; ra: hours
\* of right ascension in 1/100 s of time, dec: degrees in 1/100 arcsecond.
Obs(ok, alt, az, magOk, mag, conOk, ra, dec) ==
    [ok |-> ok, alt |-> alt, az |-> az, magOk |-> magOk, mag |-> mag,
     conOk |-> conOk, con |-> "Leo", ra |-> ra, dec |-> dec]

Failed == Obs(FALSE, 0, 0, FALSE, 0, FALSE, 0, 0)

\* high in the sky
Nominal == Obs(TRUE, 30000, 120000, TRUE, 1234, TRUE, 3723456, 4530025)

\* below the horizon, due north
Below == Obs(TRUE, -5004, 0, FALSE, 0, FALSE, 0, -32400000)

Observations ==
    { Nominal,
      Failed,
      Below,
      Obs(TRUE, 4, 359996, FALSE, 0, TRUE, 8639999, -1),
      Obs(TRUE, 6, 359994, TRUE, -2675, FALSE, 4320000, 32399999),
      Obs(TRUE, 0, 359995, TRUE, 15, TRUE, 1, 0) }

\* lines 410-415 with the signs of the table lost
FallbackMagnitudeUnsigned(name) ==
    CASE name = "Mercury" -> 500
      [] name = "Venus" -> 4200
      [] name = "Mars" -> 1200
      [] name = "Jupiter" -> 2300
      [] name = "Saturn" -> 800
      [] name = "Uranus" -> 5700
      [] name = "Neptune" -> 7900
      [] OTHER -> 0

\* lines 410-415: the approximate magnitudes, in thousandths
FallbackMagnitude(name) ==
    CASE name = "Mercury" -> -500
      [] name = "Venus" -> -4200
      [] name = "Mars" -> 1200
      [] name = "Jupiter" -> -2300
      [] name = "Saturn" -> 800
      [] name = "Uranus" -> 5700
      [] name = "Neptune" -> 7900
      [] OTHER -> 0

\* lines 397-415 without the two special cases
MagnitudeNoSpecial(name, o) ==
    IF o.magOk THEN o.mag ELSE FallbackMagnitude(name)

\* lines 397-415: magnitude, in thousandths
Magnitude(name, o) ==
    IF name = "Moon" THEN -12500
    ELSE IF name = "Sun" THEN -26700
    ELSE IF o.magOk THEN o.mag
    ELSE FallbackMagnitude(name)

\* lines 422-428
Constellation(o) == IF o.conOk THEN o.con ELSE "Unknown"

Abs(x) == IF x < 0 THEN -x ELSE x

\* _format_ra_dec, lines 277-318: seconds and arcseconds in hundredths
format_ra_dec(ra, dec) ==
    [rightAscension |->
        [hours |-> Abs(ra) \div 360000,
         minutes |-> (Abs(ra) % 360000) \div 6000,
         seconds |-> Abs(ra) % 6000,
         negative |-> ra < 0],
     declination |->
        [degrees |-> Abs(dec) \div 360000,
         arcminutes |-> (Abs(dec) % 360000) \div 6000,
         arcseconds |-> Abs(dec) % 6000,
         negative |-> dec < 0]]

\* lines 430-443: planet_data; altitude, azimuth, magnitude in hundredths
PlanetData(name, o, show_coords) ==
    LET basic == [name |-> name,
                  altitude |-> Round2(o.alt),
                  azimuth |-> Round2(o.az),
                  magnitude |-> Round2(Magnitude(name, o)),
                  constellation |-> Constellation(o)]
        coords == format_ra_dec(o.ra, o.dec)
    IN IF show_coords
       THEN [name |-> basic.name, altitude |-> basic.altitude,
             azimuth |-> basic.azimuth, magnitude |-> basic.magnitude,
             constellation |-> basic.constellation,
             rightAscension |-> coords.rightAscension,
             declination |-> coords.declination]
       ELSE basic

\* the loop of lines 387-448 with the try/except around the whole loop: the
\* first failing body ends it
RECURSIVE CollectUntilFailure(_, _, _, _)
CollectUntilFailure(catalog, i, sk, show_coords) ==
    IF i > Len(catalog) THEN <<>>
    ELSE IF ~sk[catalog[i]].ok THEN <<>>
    ELSE <<PlanetData(catalog[i], sk[catalog[i]], show_coords)>>
         \o CollectUntilFailure(catalog, i + 1, sk, show_coords)

\* the loop of lines 387-448 with planets_data.insert(0, planet_data) for
\* line 445's append: the list comes out in reverse
RECURSIVE CollectReversed(_, _, _, _)
CollectReversed(catalog, i, sk, show_coords) ==
    IF i > Len(catalog) THEN <<>>
    ELSE CollectReversed(catalog, i + 1, sk, show_coords)
         \o (IF sk[catalog[i]].ok
             THEN <<PlanetData(catalog[i], sk[catalog[i]], show_coords)>>
             ELSE <<>>)

\* lines 387-448: planets_data after the loop over PLANETS.items() from
\* item i on; a body whose computation raises is logged and left out
RECURSIVE Collect(_, _, _, _)
Collect(catalog, i, sk, show_coords) ==
    IF i > Len(catalog) THEN <<>>
    ELSE (IF sk[catalog[i]].ok
          THEN <<PlanetData(catalog[i], sk[catalog[i]], show_coords)>>
          ELSE <<>>)
         \o Collect(catalog, i + 1, sk, show_coords)

\* line 452 with '>=' for '>'
IsAboveHorizonOrOn(p) == p.altitude >= 0

\* line 452: p.get('altitude', -90) > 0
IsAboveHorizon(p) == p.altitude > 0

\* lines 349-458.  setupOk: lines 376-385 (observer, Skyfield time, earth)
\* did not raise.  Every exception outside the per-body try ends in line
\* 458's APIDataError.
get_visible_planets(catalog, time, show_coords, above_horizon, setupOk, sk) ==
    LET t == ParseTime(time) IN
    IF ~t.ok \/ ~setupOk
    THEN [raised |-> TRUE, time_obj |-> t.instant, planets_data |-> <<>>]
    ELSE LET all == Collect(catalog, 1, sk, show_coords) IN
         [raised |-> FALSE, time_obj |-> t.instant,
          planets_data |-> IF above_horizon
                           THEN SelectSeq(all, IsAboveHorizon)
                           ELSE all]

--------------------------------------------------------------------------
(* Requests to get_visible_planets (uncached body), one at a time *)

NoRequest == [time |-> "None", show_coords |-> FALSE,
              above_horizon |-> TRUE, setupOk |-> TRUE]

NoResponse == [raised |-> FALSE, time_obj |-> "none", planets_data |-> <<>>]

InitPlanets(catalog) ==
    /\ PLANETS = catalog
    /\ phase = "idle"
    /\ req = NoRequest
    /\ sky = [b \in Names(catalog) |-> Failed]
    /\ resp = NoResponse

\* The answers of the ephemeris to a request.  A request that raises before
\* the loop asks nothing (consulted is FALSE); beyond the ephemeris' years
\* line 390 raises for every body; the fixed instant T1 has one sky; at the
\* current time every body answers base, but for one body d, which answers o.
Skies(catalog, instant, consulted) ==
    IF ~consulted \/ ~InRange(instant)
    THEN { [b \in Names(catalog) |-> Failed] }
    ELSE IF instant = "T1"
    THEN { [b \in Names(catalog) |-> IF b = "Sun" THEN Below ELSE Nominal] }
    ELSE { [b \in Names(catalog) |-> IF b = d THEN o ELSE base] :
             base \in {Nominal, Failed, Below}, d \in Names(catalog),
             o \in Observations }

\* one request, from the call to the return or the raise
Request ==
    /\ phase = "idle"
    /\ \E time \in TimeArgs, show_coords \in BOOLEAN,
          above_horizon \in BOOLEAN, setupOk \in BOOLEAN :
         \E sk \in Skies(PLANETS, ParseTime(time).instant,
                          ParseTime(time).ok /\ setupOk) :
            /\ req' = [time |-> time, show_coords |-> show_coords,
                       above_horizon |-> above_horizon, setupOk |-> setupOk]
            /\ sky' = sk
            /\ resp' = get_visible_planets(PLANETS, time, show_coords,
                                           above_horizon, setupOk, sk)
    /\ phase' = "returned"
    /\ UNCHANGED PLANETS
    /\ UNCHANGED <<cacheVars, concVars, probe, astroVars, neoVars>>

\* the caller is done with the list (app.py displays it) and is ready for
\* the next request
Display ==
    /\ phase = "returned"
    /\ phase' = "idle"
    /\ req' = NoRequest
    /\ sky' = [b \in Names(PLANETS) |-> Failed]
    /\ resp' = NoResponse
    /\ UNCHANGED PLANETS
    /\ UNCHANGED <<cacheVars, concVars, probe, astroVars, neoVars>>

--------------------------------------------------------------------------
(* The sequential caller: one request at a time (app.py main) *)

NoKey == <<"", <<>>, <<>>>>

\* kind: "hit", "miss" or "raise" (the call raised); at: time.time() of the
\* call; readFailed: an existing entry could not be read or parsed;
\* seenStamp: the '_cache_time' of the file the call found; computed: what
\* the wrapped function did when it was run; result: what the caller got;
\* stored: how the write ended; count: executions of the function so far.
NoCall == [kind |-> "none", key |-> NoKey, at |-> 0, readFailed |-> FALSE,
           seenStamp |-> NoStamp, computed |-> NoPayload,
           result |-> NoPayload, stored |-> "none", count |-> 0]

\* the sequential caller's id as a writer of cache files
Main == 1

\* the concurrent callers (one request handler each)
Procs == {1, 2}

NoLocals == [result |-> NoPayload, stamp |-> NoStamp, seen |-> NoFile]

\* no helper function has been called yet
NoProbe == [fn |-> "none", arg |-> <<>>, out |-> <<>>]

InitProbe == probe = NoProbe

InitConc ==
    /\ pc = [p \in Procs |-> "idle"]
    /\ loc = [p \in Procs |-> NoLocals]

\* planets_api.py 55: os.makedirs(CACHE_DIR, exist_ok=True) at import
InitCache ==
    /\ now = 0
    /\ files = [k \in Keys |-> NoFile]
    /\ calls = [k \in Keys |-> 0]
    /\ ret = NoCall
    /\ cache_dir = TRUE

\* the outcome of a call through astronomy_utils.cache_result; error: the
\* exception that reached the caller, "none" when the call returned
NoAstroCall == [kind |-> "none", error |-> "none", result |-> NoPayload]

\* astronomy_utils.py 100: the directory is created empty at import
InitAstro ==
    /\ astroFiles = [k \in Keys |-> NoFile]
    /\ astroRet = NoAstroCall

\* a string is the sequence of its pieces, "_" being a piece of its own
START_DATE == <<"2025-01-01">>

END_DATE == <<"2025-01-08">>

DEMO_KEY == <<"DEMO", "_", "KEY">>

OTHER_KEY == <<"k2">>

\* what the model passes to get_neo_feed: start_date, end_date (None is the
\* default), api_key
NeoCalls ==
    { <<START_DATE, [some |-> FALSE, v |-> <<>>], DEMO_KEY>>,
      <<START_DATE, [some |-> TRUE, v |-> END_DATE], DEMO_KEY>>,
      <<START_DATE, [some |-> FALSE, v |-> <<>>], OTHER_KEY>> }

\* what an f-string makes of an Optional[str]
FormatOptional(x) == IF x.some THEN x.v ELSE <<"None">>

\* neo_api.py 60: f"{start_date}_{end_date}_{api_key}"
NeoCacheKey(start_date, end_date, api_key) ==
    start_date \o <<"_">> \o FormatOptional(end_date) \o <<"_">> \o api_key

NeoKeys == { NeoCacheKey(c[1], c[2], c[3]) : c \in NeoCalls }

\* a key that is not in the NEO_CACHE dict
NoEntry == [cached |-> FALSE, cache_time |-> 0, data |-> NoPayload]

\* kind: "served" (from NEO_CACHE), "fetched" or "raise"; requested: the
\* call sent a request to the API
NoFeed == [kind |-> "none", key |-> <<>>, at |-> 0, data |-> NoPayload,
           requested |-> FALSE]

\* neo_api.py 40: NEO_CACHE = {}
InitNeo ==
    /\ NEO_CACHE = [k \in NeoKeys |-> NoEntry]
    /\ feed = NoFeed

\* one call of the decorated get_visible_planets, start to return: what it
\* does to the cache of planets_api.  While the directory is missing no
\* file exists in it and open(cache_path, 'w') fails.
CacheStep(s, readOk, out, wr) ==
    LET k == generate_cache_key(FuncName, s.args, s.kwargs)
        o == wrapper(files[k], now, Main, readOk, out, wr)
        ran == o.computed # NoPayload
        n == IF ran THEN calls[k] + 1 ELSE calls[k]
    IN /\ n <= MaxCalls
       /\ cache_dir \/ wr = "open_fails"
       /\ files' = [files EXCEPT ![k] = o.file]
       /\ calls' = [calls EXCEPT ![k] = n]
       /\ ret' = [kind |-> o.kind, key |-> k, at |-> now,
                  readFailed |-> files[k].exists
                                 /\ (~readOk \/ ~Parses(files[k])),
                  seenStamp |-> files[k].stamp, computed |-> o.computed,
                  result |-> o.result, stored |-> o.stored, count |-> n]
       /\ UNCHANGED <<now, cache_dir>>

CachedCall(s, readOk, out, wr) ==
    /\ CacheStep(s, readOk, out, wr)
    /\ UNCHANGED concVars
    /\ UNCHANGED <<planetVars, probe, astroVars, neoVars>>

Call ==
    \E s \in CallShapes, readOk \in BOOLEAN, out \in Payloads \cup {Raise},
       wr \in WriteOutcomes : CachedCall(s, readOk, out, wr)

\* time passes between requests
Tick ==
    /\ \E d \in {CACHE_DURATION, CACHE_DURATION + 1} :
          /\ now + d <= MaxTime
          /\ now' = now + d
    /\ UNCHANGED <<files, calls, ret, cache_dir>>
    /\ UNCHANGED concVars
    /\ UNCHANGED <<planetVars, probe, astroVars, neoVars>>

\* how a call of clear_cache can end: both calls succeed, shutil.rmtree
\* raises, or os.makedirs raises after the tree was removed
ClearOutcomes == {"ok", "rmtree_fails", "makedirs_fails"}

\* planets_api.py 743-755 with line 751 left out
clear_cache_no_makedirs(dir, fs, outcome, gone) ==
    IF ~dir
    THEN [dir |-> FALSE, files |-> fs, raised |-> FALSE]
    ELSE IF outcome = "rmtree_fails"
    THEN [dir |-> TRUE, raised |-> TRUE,
          files |-> [k \in Keys |-> IF k \in gone THEN NoFile ELSE fs[k]]]
    ELSE [dir |-> FALSE, files |-> [k \in Keys |-> NoFile],
          raised |-> FALSE]

\* planets_api.py 743-755.  dir: os.path.exists(CACHE_DIR), fs: the files
\* in it, gone: the files a failing rmtree removed before it raised.  A
\* missing directory is left missing; an exception is logged and raised.
clear_cache(dir, fs, outcome, gone) ==
    IF ~dir
    THEN [dir |-> FALSE, files |-> fs, raised |-> FALSE]
    ELSE IF outcome = "rmtree_fails"
    THEN [dir |-> TRUE, raised |-> TRUE,
          files |-> [k \in Keys |-> IF k \in gone THEN NoFile ELSE fs[k]]]
    ELSE [dir |-> outcome # "makedirs_fails",
          files |-> [k \in Keys |-> NoFile],
          raised |-> outcome = "makedirs_fails"]

\* one call of clear_cache; ret.count is the number of files it removed
ClearCache ==
    \E outcome \in ClearOutcomes :
    \E gone \in IF outcome = "rmtree_fails" THEN SUBSET Keys ELSE {{}} :
       LET c == clear_cache(cache_dir, files, outcome, gone) IN
       /\ cache_dir' = c.dir
       /\ files' = c.files
       /\ ret' = [NoCall EXCEPT
                     !.kind = IF c.raised THEN "clear_raised" ELSE "cleared",
                     !.at = now,
                     !.count = Cardinality({ k \in Keys :
                                   files[k].exists /\ ~c.files[k].exists })]
       /\ UNCHANGED <<now, calls>>
       /\ UNCHANGED concVars
       /\ UNCHANGED <<planetVars, probe, astroVars, neoVars>>

Init ==
    /\ InitCache
    /\ InitConc
    /\ InitPlanets(Catalog({"pluto"}))
    /\ InitProbe
    /\ InitAstro
    /\ InitNeo

Next == Call \/ Tick

Spec == Init /\ [][Next]_vars

\* time passes until every entry written so far is older than CACHE_DURATION
Expire ==
    /\ now + CACHE_DURATION + 1 <= MaxTime
    /\ now' = now + CACHE_DURATION + 1
    /\ UNCHANGED <<files, calls, ret, cache_dir>>
    /\ UNCHANGED concVars
    /\ UNCHANGED <<planetVars, probe, astroVars, neoVars>>

\* cached calls with calls of clear_cache between them
NextClear == Call \/ Expire \/ ClearCache

SpecClear == Init /\ [][NextClear]_vars

\* the module is loaded with an ephemeris holding any of the optional groups
InitSky ==
    /\ InitCache
    /\ InitConc
    /\ \E avail \in SUBSET Names(OptionalGroups) : InitPlanets(Catalog(avail))
    /\ InitProbe
    /\ InitAstro
    /\ InitNeo

NextPlanets == Request \/ Display

SpecPlanets == InitSky /\ [][NextPlanets]_vars

--------------------------------------------------------------------------
(* Concurrent callers of the wrapper on one key: each statement of lines   *)
(* 219-250 that touches the file is a step of its own, as it is for        *)
(* request handlers running in separate threads or processes.              *)

\* the key all concurrent callers use
ConcKey == generate_cache_key(FuncName, <<>>, << <<"latitude", 32>> >>)

\* lines 219-234: the lookup; a fresh entry is returned at once
ConcLookup(p) ==
    /\ pc[p] = "idle"
    /\ loc' = [loc EXCEPT ![p] = [NoLocals EXCEPT !.seen = files[ConcKey]]]
    /\ pc' = [pc EXCEPT ![p] =
                 IF Lookup(files[ConcKey], now, TRUE) = "fresh"
                 THEN "idle" ELSE "compute"]
    /\ UNCHANGED <<now, files, calls, ret, cache_dir>>
    /\ UNCHANGED <<planetVars, probe, astroVars, neoVars>>

\* line 237: result = func(*args, **kwargs); a raise leaves the wrapper
ConcCompute(p) ==
    /\ pc[p] = "compute"
    /\ calls[ConcKey] < MaxCalls
    /\ calls' = [calls EXCEPT ![ConcKey] = @ + 1]
    /\ \E out \in Payloads \cup {Raise} :
          IF out = Raise
          THEN /\ pc' = [pc EXCEPT ![p] = "idle"]
               /\ UNCHANGED loc
          ELSE /\ pc' = [pc EXCEPT ![p] = "open"]
               /\ loc' = [loc EXCEPT ![p].result = out]
    /\ UNCHANGED <<now, files, ret, cache_dir>>
    /\ UNCHANGED <<planetVars, probe, astroVars, neoVars>>

\* line 241: open(cache_path, 'w') creates the file or empties it
ConcOpen(p) ==
    /\ pc[p] = "open"
    /\ files' = [files EXCEPT ![ConcKey] = Truncated]
    /\ pc' = [pc EXCEPT ![p] = "dump"]
    /\ UNCHANGED <<now, calls, ret, loc, cache_dir>>
    /\ UNCHANGED <<planetVars, probe, astroVars, neoVars>>

\* lines 242-245: the dict is built, time.time() read, and json.dump
\* writes the 'result' part at the start of the file
ConcDumpResult(p) ==
    /\ pc[p] = "dump"
    /\ loc' = [loc EXCEPT ![p].stamp = now]
    /\ files' = [files EXCEPT ![ConcKey] =
                    [@ EXCEPT !.exists = TRUE, !.result = loc[p].result,
                              !.rby = p]]
    /\ pc' = [pc EXCEPT ![p] = "dump_time"]
    /\ UNCHANGED <<now, calls, ret, cache_dir>>
    /\ UNCHANGED <<planetVars, probe, astroVars, neoVars>>

\* lines 242-245: json.dump writes the '_cache_time' part behind it and the
\* file is closed; line 250 returns
ConcDumpStamp(p) ==
    /\ pc[p] = "dump_time"
    /\ files' = [files EXCEPT ![ConcKey] =
                    [@ EXCEPT !.exists = TRUE, !.stamp = loc[p].stamp,
                              !.sby = p]]
    /\ pc' = [pc EXCEPT ![p] = "idle"]
    /\ UNCHANGED <<now, calls, ret, loc, cache_dir>>
    /\ UNCHANGED <<planetVars, probe, astroVars, neoVars>>

NextConc ==
    \/ \E p \in Procs : ConcLookup(p)
    \/ \E p \in Procs : ConcCompute(p)
    \/ \E p \in Procs : ConcOpen(p)
    \/ \E p \in Procs : ConcDumpResult(p)
    \/ \E p \in Procs : ConcDumpStamp(p)
    \/ Tick

SpecConc == Init /\ [][NextConc]_vars

\* a stored entry as the claim wants it: no file, or one whole document
\* written by a single caller
AbsentOrComplete(f) == ~f.exists \/ IsComplete(f)

\* C4: with several callers on the same key, the stored entry is at every
\* moment absent or one complete (payload, timestamp) written by a single
\* caller, and no lookup reads anything else.
C4_AtomicEntry ==
    /\ AbsentOrComplete(files[ConcKey])
    /\ \A p \in Procs : AbsentOrComplete(loc[p].seen)

--------------------------------------------------------------------------
(* Claims on the result cache, checked under Spec *)

\* a step that is one call of the wrapped function with key k
IsCallOn(k) == now' = now /\ ret'.kind # "none" /\ ret'.key = k

\* C1: when a call computed and stored its result, the next call with the
\* same arguments, made while now - entry timestamp <= CACHE_DURATION (300 s
\* itself included) and reading the entry, does not run the function (it
\* ran exactly once over the two calls) and returns the first call's result.
C1_RoundTripWithinTTL ==
    [][ \A k \in Keys :
          ( /\ ret.kind = "miss" /\ ret.stored = "ok" /\ ret.key = k
            /\ IsCallOn(k)
            /\ ~ret'.readFailed
            /\ now - ret.at <= CACHE_DURATION )
          => ( /\ ret'.kind = "hit"
               /\ ret'.result = ret.result
               /\ calls'[k] = ret.count
               /\ ret'.count = ret.count ) ]_vars

\* C1 witness: a hit at the boundary, the entry being exactly 300 s old,
\* after one execution of the function
C1_Witness ==
    /\ ret.kind = "hit"
    /\ ret.at - ret.seenStamp = CACHE_DURATION
    /\ ret.count = 1
    /\ ret.result \in Payloads

\* C2: a call that finds an entry older than CACHE_DURATION runs the
\* function again; when the function returns, its fresh result is returned,
\* and when the store succeeds the entry is the new payload with the current
\* time; the call after that, within CACHE_DURATION of the new timestamp
\* and reading the entry, is a hit on the new payload.
C2_ExpiryRecomputes ==
    [][ \A k \in Keys :
          /\ ( /\ IsCallOn(k)
               /\ Parses(files[k])
               /\ now - files[k].stamp > CACHE_DURATION )
             => ( /\ calls'[k] = calls[k] + 1
                  /\ ret'.computed # NoPayload
                  /\ ret'.computed # Raise
                       => ret'.kind = "miss" /\ ret'.result = ret'.computed
                  /\ ret'.stored = "ok"
                       => files'[k] = Complete(Main, ret'.computed, now) )
          /\ ( /\ ret.kind = "miss" /\ ret.stored = "ok" /\ ret.key = k
               /\ ret.seenStamp # NoStamp
               /\ ret.at - ret.seenStamp > CACHE_DURATION
               /\ IsCallOn(k)
               /\ ~ret'.readFailed
               /\ now - ret.at <= CACHE_DURATION )
             => ( ret'.kind = "hit" /\ ret'.result = ret.result ) ]_vars

\* C2 witness: a hit on an entry that replaced an expired one (the entry
\* hit was stored by the second execution of the function)
C2_Witness ==
    /\ ret.kind = "hit"
    /\ ret.count = 2
    /\ ret.seenStamp > CACHE_DURATION
    /\ files[ret.key] = Complete(Main, ret.result, ret.seenStamp)

\* C3: a call whose lookup could not read or parse the entry, or whose
\* store failed, ends as the wrapped function does: the function is run,
\* the call raises only if the function raised, and otherwise returns the
\* function's result.
C3_PersistenceFailureBypassed ==
    (ret.kind # "none" /\ (ret.readFailed \/ ret.stored = "failed"))
    => ( /\ ret.computed # NoPayload
         /\ (ret.kind = "raise") <=> (ret.computed = Raise)
         /\ ret.computed # Raise
              => ret.kind = "miss" /\ ret.result = ret.computed )

\* C3 witness: the entry was unreadable, the store failed too, and the
\* caller still got the function's result
C3_Witness ==
    /\ ret.readFailed
    /\ ret.stored = "failed"
    /\ ret.kind = "miss"
    /\ ret.result \in Payloads

\* C5: a call that reads a parseable entry no older than CACHE_DURATION
\* returns its payload, does not run the function and leaves every cache
\* file as it was, timestamp included.
C5_HitHasNoSideEffects ==
    [][ \A k \in Keys :
          ( /\ IsCallOn(k)
            /\ Parses(files[k])
            /\ now - files[k].stamp <= CACHE_DURATION
            /\ ~ret'.readFailed )
          => ( /\ files' = files
               /\ calls' = calls
               /\ ret'.result = files[k].result ) ]_vars

\* C5 witness: a hit on an entry stored earlier, whose timestamp is still
\* the time of the store
C5_Witness ==
    /\ ret.kind = "hit"
    /\ files[ret.key].stamp < ret.at
    /\ files[ret.key].stamp = ret.seenStamp
    /\ calls[ret.key] = 1

--------------------------------------------------------------------------
(* Claims on get_visible_planets, checked under SpecPlanets *)

\* the request has ended with a list of records
Returned == phase = "returned" /\ ~resp.raised

Records == { resp.planets_data[i] : i \in 1..Len(resp.planets_data) }

HasRecord(b) == \E p \in Records : p.name = b

\* C6: a request with above_horizon=True returns no record whose altitude
\* is <= 0, for every catalog and sky.
C6_AboveHorizonOnly ==
    (Returned /\ req.above_horizon) => \A p \in Records : p.altitude > 0

\* C6 witness: a filtered request that returned records while a body whose
\* raw altitude is above 0 but rounds to 0.00 was computed and left out
C6_Witness ==
    /\ Returned /\ req.above_horizon
    /\ Records # {}
    /\ \E b \in Names(PLANETS) :
          /\ sky[b].ok /\ sky[b].alt > 0 /\ Round2(sky[b].alt) = 0
          /\ ~HasRecord(b)

\* C7: a body whose computation fails never makes the request raise (it
\* raises only for a failure outside the loop); the failed body has no
\* record, and every body whose computation succeeded has one, unless the
\* horizon filter removed it.
C7_BodyFailureIsolated ==
    phase = "returned" =>
      /\ resp.raised <=> (~ParseTime(req.time).ok \/ ~req.setupOk)
      /\ ~resp.raised =>
            \A b \in Names(PLANETS) :
               HasRecord(b) <=>
                  ( /\ sky[b].ok
                    /\ req.above_horizon => Round2(sky[b].alt) > 0 )

\* C7 witness: an unfiltered request in which a body in the middle of the
\* catalog failed and bodies before and after it were returned
C7_Witness ==
    /\ Returned /\ ~req.above_horizon
    /\ ~sky["Venus"].ok /\ ~HasRecord("Venus")
    /\ HasRecord("Sun") /\ HasRecord("Moon")
    /\ Len(resp.planets_data) = Len(PLANETS) - 1

\* C8 as stated: the unfiltered result always holds the Sun with magnitude
\* -26.7 and the Moon with magnitude -12.5.
C8_SunAndMoonAlways ==
    (Returned /\ ~req.above_horizon) =>
      /\ \E p \in Records : p.name = "Sun" /\ p.magnitude = -2670
      /\ \E p \in Records : p.name = "Moon" /\ p.magnitude = -1250

\* C8 amended: in the unfiltered result the Sun and the Moon each appear,
\* whatever their altitude, whenever their own position computation
\* succeeded; every Sun record has magnitude -26.7 and every Moon record
\* magnitude -12.5.
C8_SunAndMoonWhenComputed ==
    Returned =>
      /\ ~req.above_horizon =>
            /\ sky["Sun"].ok => HasRecord("Sun")
            /\ sky["Moon"].ok => HasRecord("Moon")
      /\ \A p \in Records :
            /\ p.name = "Sun" => p.magnitude = -2670
            /\ p.name = "Moon" => p.magnitude = -1250

\* C8 witness: an unfiltered result holding the Sun below the horizon and
\* the Moon, with their fixed magnitudes
C8_Witness ==
    /\ Returned /\ ~req.above_horizon
    /\ \E p \in Records :
          p.name = "Sun" /\ p.altitude < 0 /\ p.magnitude = -2670
    /\ \E p \in Records : p.name = "Moon" /\ p.magnitude = -1250

\* C9 as stated: a request with a malformed time string fails: it raises
\* and returns no list.
C9_MalformedTimeFails ==
    (phase = "returned" /\ req.time = "malformed") =>
      (resp.raised /\ resp.planets_data = <<>>)

\* C9 amended: a request with a malformed time string is computed for the
\* current time, as one with time=None is; the malformed string never makes
\* it raise.
C9_MalformedTimeUsesNow ==
    (phase = "returned" /\ req.time = "malformed") =>
      /\ resp.time_obj = "now"
      /\ resp.raised <=> ~req.setupOk
      /\ resp = get_visible_planets(PLANETS, "None", req.show_coords,
                                    req.above_horizon, req.setupOk, sky)

\* C9 witness: a request with a malformed time string that returned records
C9_Witness ==
    /\ Returned /\ req.time = "malformed"
    /\ resp.time_obj = "now"
    /\ Records # {}

\* C10: every returned record has 0 <= azimuth < 360 after rounding.
C10_AzimuthInRange ==
    Returned => \A p \in Records : p.azimuth >= 0 /\ p.azimuth < 36000

--------------------------------------------------------------------------
(* astronomy_utils: the helper functions.  Altitudes are whole degrees,    *)
(* magnitudes tenths of a magnitude, so that (10.0 - altitude) * 0.2 is    *)
(* (10 - altitude) * 2 tenths.                                             *)

\* the largest altitude and magnitude handed to is_planet_visible
MaxAltitude == 12
MaxMagnitude == 15

\* Optional[float]: None, or a number
None == [some |-> FALSE, v |-> 0]

Some(x) == [some |-> TRUE, v |-> x]

\* line 85
HORIZON_ALTITUDE == 0

\* line 127 testing against the horizon instead of min_altitude
BelowHorizonOnly(altitude, min_altitude) == altitude < HORIZON_ALTITUDE

\* line 127: altitude < min_altitude
BelowMinimum(altitude, min_altitude) == altitude < min_altitude

\* lines 132-133 with the comparison turned round
TooBright(magnitude, max_magnitude) ==
    magnitude.some /\ max_magnitude.some /\ magnitude.v < max_magnitude.v

\* lines 132-133: both given and magnitude > max_magnitude
TooFaint(magnitude, max_magnitude) ==
    magnitude.some /\ max_magnitude.some /\ magnitude.v > max_magnitude.v

\* line 141 with 0.1 magnitude per degree
effective_magnitude_tenth(magnitude, altitude) ==
    magnitude + (10 - altitude)

\* line 141: magnitude + (10.0 - altitude) * 0.2, in tenths
effective_magnitude(magnitude, altitude) ==
    magnitude + (10 - altitude) * 2

\* lines 139-144: the extinction test
Extinguished(altitude, magnitude, max_magnitude) ==
    /\ altitude < 10
    /\ magnitude.some
    /\ max_magnitude.some
    /\ effective_magnitude(magnitude.v, altitude) > max_magnitude.v

\* lines 126-147
is_planet_visible(altitude, magnitude, min_altitude, max_magnitude) ==
    IF BelowMinimum(altitude, min_altitude) THEN FALSE
    ELSE IF TooFaint(magnitude, max_magnitude) THEN FALSE
    ELSE IF Extinguished(altitude, magnitude, max_magnitude) THEN FALSE
    ELSE TRUE

Altitudes == (0 - MaxAltitude)..MaxAltitude

MagnitudeArgs == {None} \cup { Some(m) : m \in (0 - MaxMagnitude)..MaxMagnitude }

\* min_altitude: below the horizon, the default, above it
MinAltitudeArgs == {-5, HORIZON_ALTITUDE, 5}

\* max_magnitude: None (the default), 0.0 and 1.0
MaxMagnitudeArgs == {None, Some(0), Some(10)}

\* one call of is_planet_visible
IsPlanetVisibleCall ==
    /\ probe.fn = "none"
    /\ \E altitude \in Altitudes, magnitude \in MagnitudeArgs,
          min_altitude \in MinAltitudeArgs,
          max_magnitude \in MaxMagnitudeArgs :
         probe' = [fn |-> "is_planet_visible",
                   arg |-> [altitude |-> altitude, magnitude |-> magnitude,
                            min_altitude |-> min_altitude,
                            max_magnitude |-> max_magnitude],
                   out |-> is_planet_visible(altitude, magnitude,
                                             min_altitude, max_magnitude)]
    /\ UNCHANGED <<cacheVars, concVars, planetVars, astroVars, neoVars>>

\* the caller has used the result
Return ==
    /\ probe.fn # "none"
    /\ probe' = NoProbe
    /\ UNCHANGED <<cacheVars, concVars, planetVars, astroVars, neoVars>>

--------------------------------------------------------------------------
(* get_azimuth_direction, astronomy_utils.py 150-179.  Azimuths are half   *)
(* degrees (45 is 22.5 degrees); the keys of AZIMUTH_DIRECTIONS are whole  *)
(* degrees as in the source.                                               *)

\* the azimuths handed to get_azimuth_direction reach from -MaxAzimuth to
\* MaxAzimuth half degrees
MaxAzimuth == 800

\* lines 52-62 with east and west exchanged
AZIMUTH_DIRECTIONS_Mirrored(key) ==
    CASE key = 0 -> "North"
      [] key = 45 -> "Northwest"
      [] key = 90 -> "West"
      [] key = 135 -> "Southwest"
      [] key = 180 -> "South"
      [] key = 225 -> "Southeast"
      [] key = 270 -> "East"
      [] key = 315 -> "Northeast"
      [] key = 360 -> "North"

\* lines 52-62
AZIMUTH_DIRECTIONS(key) ==
    CASE key = 0 -> "North"
      [] key = 45 -> "Northeast"
      [] key = 90 -> "East"
      [] key = 135 -> "Southeast"
      [] key = 180 -> "South"
      [] key = 225 -> "Southwest"
      [] key = 270 -> "West"
      [] key = 315 -> "Northwest"
      [] key = 360 -> "North"

\* AZIMUTH_DIRECTIONS.keys(), in insertion order
AzimuthKeys == <<0, 45, 90, 135, 180, 225, 270, 315, 360>>

\* line 161 with a remainder that keeps the sign of the azimuth (math.fmod)
NormalizeTruncated(azimuth) ==
    IF azimuth >= 0 THEN azimuth % 720 ELSE 0 - ((0 - azimuth) % 720)

\* line 161: azimuth % 360 (Python: the result has the sign of 360)
Normalize(azimuth) == azimuth % 720

\* lines 164, 169: the sort key abs(x - azimuth), in half degrees
Distance(key, azimuth) == Abs(2 * key - azimuth)

\* key i comes before key j in sorted(.., key=abs(x - azimuth)); the sort is
\* stable, so equal distances keep the insertion order
SortsBefore(i, j, azimuth) ==
    \/ Distance(AzimuthKeys[i], azimuth) < Distance(AzimuthKeys[j], azimuth)
    \/ /\ Distance(AzimuthKeys[i], azimuth) = Distance(AzimuthKeys[j], azimuth)
       /\ i < j

\* line 169: directions[r - 1]; line 164's min is directions[0], the first
\* of the nearest keys
Directions(r, azimuth) ==
    LET idx == DOMAIN AzimuthKeys
        i == CHOOSE k \in idx :
                Cardinality({ j \in idx : SortsBefore(j, k, azimuth) }) = r - 1
    IN AzimuthKeys[i]

\* line 173: the two keys are exchanged
Exchanged(dir1, dir2) ==
    \/ dir1 > dir2 /\ ~(dir1 > 270 /\ dir2 < 90)
    \/ dir1 < 90 /\ dir2 > 270

\* lines 160-179
get_azimuth_direction(azimuth) ==
    LET az == Normalize(azimuth)
        closest_direction == Directions(1, az)
        dir1 == Directions(1, az)
        dir2 == Directions(2, az)
    IN IF Distance(closest_direction, az) > 45
       THEN IF Exchanged(dir1, dir2)
            THEN AZIMUTH_DIRECTIONS(dir2) \o "-" \o AZIMUTH_DIRECTIONS(dir1)
            ELSE AZIMUTH_DIRECTIONS(dir1) \o "-" \o AZIMUTH_DIRECTIONS(dir2)
       ELSE AZIMUTH_DIRECTIONS(closest_direction)

Azimuths == (0 - MaxAzimuth)..MaxAzimuth

\* one call of get_azimuth_direction
GetAzimuthDirectionCall ==
    /\ probe.fn = "none"
    /\ \E azimuth \in Azimuths :
         probe' = [fn |-> "get_azimuth_direction",
                   arg |-> [azimuth |-> azimuth],
                   out |-> get_azimuth_direction(azimuth)]
    /\ UNCHANGED <<cacheVars, concVars, planetVars, astroVars, neoVars>>

--------------------------------------------------------------------------
(* get_altitude_description, astronomy_utils.py 182-201; whole degrees *)

\* lines 192-201 with '<=' for each '<' above the horizon
get_altitude_description_inclusive(altitude) ==
    IF altitude < 0 THEN "below the horizon"
    ELSE IF altitude <= 15 THEN "low"
    ELSE IF altitude <= 45 THEN "at medium height"
    ELSE IF altitude <= 75 THEN "high"
    ELSE "almost directly overhead"

\* lines 192-201
get_altitude_description(altitude) ==
    IF altitude < 0 THEN "below the horizon"
    ELSE IF altitude < 15 THEN "low"
    ELSE IF altitude < 45 THEN "at medium height"
    ELSE IF altitude < 75 THEN "high"
    ELSE "almost directly overhead"

\* the altitudes of the sky, nadir to zenith
SkyAltitudes == -90..90

\* one call of get_altitude_description
GetAltitudeDescriptionCall ==
    /\ probe.fn = "none"
    /\ \E altitude \in SkyAltitudes :
         probe' = [fn |-> "get_altitude_description",
                   arg |-> [altitude |-> altitude],
                   out |-> get_altitude_description(altitude)]
    /\ UNCHANGED <<cacheVars, concVars, planetVars, astroVars, neoVars>>

--------------------------------------------------------------------------
(* planets_api.get_moon_phase, lines 507-578: the phase from the ecliptic  *)
(* longitudes of Sun and Moon.  Longitudes and angles are tenths of a      *)
(* degree, the phase percent is in hundredths of a percent.                *)

\* lines 541-543 without the fold of angles beyond 180 degrees
PhaseAngleUnfolded(slon, mlon) == (mlon - slon) % 3600

\* lines 541-543: phase_angle
PhaseAngle(slon, mlon) ==
    LET phase_angle == (mlon - slon) % 3600
    IN IF phase_angle > 1800 THEN 3600 - phase_angle ELSE phase_angle

\* line 546: phase_angle / 180 * 100.  The angles of the model are multiples
\* of 0.9 degrees, for which the quotient is exact.
PhasePercent(phase_angle) == (phase_angle * 50) \div 9

\* lines 549-564: phase_name
PhaseName(phase_percent) ==
    IF phase_percent < 100 THEN "New Moon"
    ELSE IF phase_percent < 2500 THEN "Waxing Crescent"
    ELSE IF phase_percent < 4900 THEN "First Quarter"
    ELSE IF phase_percent < 5100 THEN "First Quarter"
    ELSE IF phase_percent < 7500 THEN "Waxing Gibbous"
    ELSE IF phase_percent < 9900 THEN "Full Moon"
    ELSE IF phase_percent < 10000 THEN "Waning Gibbous"
    ELSE "Last Quarter"

\* line 574: round(phase_percent, 1), hundredths to tenths of a percent
Round1(x) == Round2(x)

\* lines 536-578: the phase part of the returned dictionary (the date, the
\* distance and the angular diameter do not depend on it)
get_moon_phase(slon, mlon) ==
    LET phase_percent == PhasePercent(PhaseAngle(slon, mlon))
    IN [phase_percent |-> Round1(phase_percent),
        phase_name |-> PhaseName(phase_percent)]

\* lines 537-538: slon.degrees and mlon.degrees, each in [0, 360); the Moon
\* at every 0.9 degrees, the Sun at the equinoxes, a solstice and near 360
SunLongitudes == {0, 900, 1800, 3591}

MoonLongitudes == { 9 * k : k \in 0..399 }

\* one call of get_moon_phase
GetMoonPhaseCall ==
    /\ probe.fn = "none"
    /\ \E slon \in SunLongitudes, mlon \in MoonLongitudes :
         probe' = [fn |-> "get_moon_phase",
                   arg |-> [slon |-> slon, mlon |-> mlon],
                   out |-> get_moon_phase(slon, mlon)]
    /\ UNCHANGED <<cacheVars, concVars, planetVars, astroVars, neoVars>>

--------------------------------------------------------------------------
(* neo_api.get_neo_visibility, lines 156-240.  Dates are day numbers. *)

\* the approach date lies at most this many days before or after today
MaxGap == 9

\* line 181 with '>=' for '>'
TooFarInclusive(date_diff) == date_diff >= 7

\* line 181: date_diff > 7
TooFar(date_diff) == date_diff > 7

\* lines 202-208 with the two lists of each hemisphere exchanged
PossibleDirectionsExchanged(latitude) ==
    IF latitude > 0
    THEN IF latitude > 45
         THEN <<"South", "Southeast", "Southwest", "East", "West">>
         ELSE <<"South", "Southeast", "Southwest">>
    ELSE IF latitude < -45
         THEN <<"North", "Northeast", "Northwest", "East", "West">>
         ELSE <<"North", "Northeast", "Northwest">>

\* lines 202-208: possible_directions
PossibleDirections(latitude) ==
    IF latitude > 0
    THEN IF latitude > 45
         THEN <<"South", "Southeast", "Southwest">>
         ELSE <<"South", "Southeast", "Southwest", "East", "West">>
    ELSE IF latitude < -45
         THEN <<"North", "Northeast", "Northwest">>
         ELSE <<"North", "Northeast", "Northwest", "East", "West">>

\* lines 216-232 without the branches of the four intercardinal directions,
\* which then keep the default of line 216
DirectionAzimuthCardinal(direction) ==
    IF direction = "North" THEN 0
    ELSE IF direction = "East" THEN 90
    ELSE IF direction = "South" THEN 180
    ELSE IF direction = "West" THEN 270
    ELSE 0

\* lines 216-232: azimuth
DirectionAzimuth(direction) ==
    IF direction = "North" THEN 0
    ELSE IF direction = "Northeast" THEN 45
    ELSE IF direction = "East" THEN 90
    ELSE IF direction = "Southeast" THEN 135
    ELSE IF direction = "South" THEN 180
    ELSE IF direction = "Southwest" THEN 225
    ELSE IF direction = "West" THEN 270
    ELSE IF direction = "Northwest" THEN 315
    ELSE 0

\* lines 175-240.  today: datetime.now().date(); approach: approach_date, the
\* parsed neo_data["close_approach_date"]; choice: the index random.choice picks;
\* elevation: what random.randint(20, 60) returns.  The reason is the
\* f-string of line 184 in its three parts.
get_neo_visibility(today, approach, latitude, longitude, choice, elevation) ==
    LET date_diff == Abs(approach - today)
        direction == PossibleDirections(latitude)[choice]
    IN IF TooFar(date_diff)
       THEN [visible |-> FALSE,
             reason |-> <<"Not visible: approach date is ", date_diff,
                          " days away from today">>]
       ELSE [visible |-> TRUE,
             direction |-> direction,
             elevation |-> elevation,
             azimuth |-> DirectionAzimuth(direction),
             note |-> "approximate"]

\* the days on which the function is called
Todays == {0, 30}

\* the observer: poles, both sides of 45 and of -45, the equator
Latitudes == {-90, -46, -45, 0, 1, 45, 46}

Longitudes == {-74, 0}

\* random.randint(20, 60)
ElevationDraws == 20..60

\* one call of get_neo_visibility; the random draws happen only when the
\* approach is near enough
GetNeoVisibilityCall ==
    /\ probe.fn = "none"
    /\ \E today \in Todays, gap \in (0 - MaxGap)..MaxGap,
          latitude \in Latitudes, longitude \in Longitudes :
         \E choice \in IF TooFar(Abs(gap)) THEN {1}
                       ELSE DOMAIN PossibleDirections(latitude),
            elevation \in IF TooFar(Abs(gap)) THEN {20} ELSE ElevationDraws :
            probe' = [fn |-> "get_neo_visibility",
                      arg |-> [today |-> today, approach_date |-> today + gap,
                               latitude |-> latitude, longitude |-> longitude],
                      out |-> get_neo_visibility(today, today + gap, latitude,
                                                 longitude, choice, elevation)]
    /\ UNCHANGED <<cacheVars, concVars, planetVars, astroVars, neoVars>>

--------------------------------------------------------------------------
(* planets_api.get_planet_by_name, lines 461-504 *)

\* str.lower() on the names of the catalog and on the requested names
Lower(name) ==
    CASE name = "Sun" -> "sun"
      [] name = "Mercury" -> "mercury"
      [] name = "Venus" -> "venus"
      [] name = "Mars" -> "mars"
      [] name = "Jupiter" -> "jupiter"
      [] name = "Saturn" -> "saturn"
      [] name = "Uranus" -> "uranus"
      [] name = "Neptune" -> "neptune"
      [] name = "Moon" -> "moon"
      [] name = "Pluto" -> "pluto"
      [] name = "MOON" -> "moon"
      [] name = "vEnUs" -> "venus"
      [] name = "Titan" -> "titan"
      [] name = "Vulcan" -> "vulcan"
      [] OTHER -> name

\* line 500 comparing the names as they are
MatchesExactly(planet, planet_name) == planet.name = planet_name

\* line 500: planet['name'].lower() == planet_name.lower()
Matches(planet, planet_name) == Lower(planet.name) = Lower(planet_name)

\* what the function returns when no record matches: None
NotFound == [found |-> FALSE, planet |-> <<>>]

\* lines 499-504: the first matching record of planets_data from item i on
RECURSIVE FindPlanet(_, _, _)
FindPlanet(planets_data, i, planet_name) ==
    IF i > Len(planets_data) THEN NotFound
    ELSE IF Matches(planets_data[i], planet_name)
    THEN [found |-> TRUE, planet |-> planets_data[i]]
    ELSE FindPlanet(planets_data, i + 1, planet_name)

\* lines 488-504; an exception of get_visible_planets passes through
get_planet_by_name(catalog, planet_name, time, show_coords, setupOk, sk) ==
    LET r == get_visible_planets(catalog, time, show_coords, FALSE, setupOk, sk)
    IN IF r.raised
       THEN [raised |-> TRUE, found |-> FALSE, planet |-> <<>>]
       ELSE [raised |-> FALSE,
             found |-> FindPlanet(r.planets_data, 1, planet_name).found,
             planet |-> FindPlanet(r.planets_data, 1, planet_name).planet]

\* requested names: catalog names as written, in other case, a body the
\* loaded catalog lacks, and a name no catalog has
NameArgs == {"Moon", "MOON", "vEnUs", "pluto", "Titan", "Vulcan"}

\* one call of get_planet_by_name, its get_visible_planets computing afresh
GetPlanetByNameCall ==
    /\ probe.fn = "none"
    /\ \E planet_name \in NameArgs, time \in TimeArgs,
          show_coords \in BOOLEAN, setupOk \in BOOLEAN :
         \E sk \in Skies(PLANETS, ParseTime(time).instant,
                          ParseTime(time).ok /\ setupOk) :
            probe' = [fn |-> "get_planet_by_name",
                      arg |-> [planet_name |-> planet_name, time |-> time,
                               show_coords |-> show_coords,
                               setupOk |-> setupOk, sky |-> sk],
                      out |-> get_planet_by_name(PLANETS, planet_name, time,
                                                 show_coords, setupOk, sk)]
    /\ UNCHANGED <<cacheVars, concVars, planetVars, astroVars, neoVars>>

\*END-HELPER-ACTIONS
--------------------------------------------------------------------------
(* planets_api.get_twilight_times, lines 581-640.  Times of day are seconds *)
(* after 00:00:00 UTC.                                                      *)

\* calendar.isleap
IsLeap(year) == year % 4 = 0 /\ (year % 100 # 0 \/ year % 400 = 0)

\* the days of a month, as datetime's constructor checks them
DaysInMonth(year, month) ==
    IF month = 2 THEN (IF IsLeap(year) THEN 29 ELSE 28)
    ELSE IF month \in {4, 6, 9, 11} THEN 30
    ELSE 31

\* datetime(year, month, day, tzinfo=utc) does not raise ValueError
ValidDate(year, month, day) ==
    month \in 1..12 /\ day >= 1 /\ day <= DaysInMonth(year, month)

\* lines 610-618: depression_angle, in degrees
DepressionAngle(twilight_type) ==
    CASE twilight_type = "civil" -> 6
      [] twilight_type = "nautical" -> 12
      [] twilight_type = "astronomical" -> 18
      [] OTHER -> 6

\* line 632: event == (1 - depression_angle / 90.0), both sides times 90
IsDawnEvent(event, depression_angle) == 90 * event = 90 - depression_angle

\* line 634: event == (1 + depression_angle / 90.0), both sides times 90
IsDuskEvent(event, depression_angle) == 90 * event = 90 + depression_angle

\* strftime("%H:%M:%S"): hours, minutes, seconds
FormatTime(seconds) ==
    <<seconds \div 3600, (seconds % 3600) \div 60, seconds % 60>>

\* a key of the result that was not set
Absent == [present |-> FALSE, at |-> <<0, 0, 0>>]

\* lines 631-635: the loop over zip(times, events) from item i on, starting
\* from result; a later match replaces an earlier one
RECURSIVE ProcessEvents(_, _, _, _)
ProcessEvents(found, i, depression_angle, result) ==
    IF i > Len(found) THEN result
    ELSE LET time == found[i].time
             event == found[i].event
         IN ProcessEvents(found, i + 1, depression_angle,
              IF IsDawnEvent(event, depression_angle)
              THEN [result EXCEPT !.dawn =
                       [present |-> TRUE, at |-> FormatTime(time)]]
              ELSE IF IsDuskEvent(event, depression_angle)
              THEN [result EXCEPT !.dusk =
                       [present |-> TRUE, at |-> FormatTime(time)]]
              ELSE result)

\* lines 599-640.  found: what almanac.find_discrete returns for the day,
\* each item the time of a change and the code dark_twilight_day takes from
\* then on (0 night, 1 astronomical, 2 nautical, 3 civil twilight, 4 day).
\* Line 623 builds the end of the day as datetime(year, month, day + 1).
get_twilight_times(year, month, day, twilight_type, found) ==
    LET depression_angle == DepressionAngle(twilight_type)
        empty == [type |-> twilight_type, error |-> FALSE,
                  dawn |-> Absent, dusk |-> Absent]
    IN IF ~ValidDate(year, month, day) \/ ~ValidDate(year, month, day + 1)
       THEN [empty EXCEPT !.error = TRUE]
       ELSE ProcessEvents(found, 1, depression_angle, empty)

Change(time, event) == [time |-> time, event |-> event]

\* the changes of one UTC day: at a middle latitude, in the white nights of
\* a high latitude, and in the polar day
TwilightDays ==
    { << Change(14400, 1), Change(16547, 2), Change(18610, 3),
         Change(20400, 4), Change(61200, 3), Change(62999, 2),
         Change(65100, 1), Change(67259, 0) >>,
      << Change(3600, 3), Change(7200, 4), Change(75600, 3),
         Change(82800, 2) >>,
      << >> }

\* date_obj: every day of a leap year and of a common year
TwilightDates ==
    { d \in [year : {2024, 2025}, month : 1..12, day : 1..31] :
         ValidDate(d.year, d.month, d.day) }

TwilightTypes == {"civil", "nautical", "astronomical", "golden"}

\* one call of get_twilight_times
GetTwilightTimesCall ==
    /\ probe.fn = "none"
    /\ \E d \in TwilightDates, twilight_type \in TwilightTypes,
          found \in TwilightDays :
         probe' = [fn |-> "get_twilight_times",
                   arg |-> [date_obj |-> d, twilight_type |-> twilight_type,
                            found |-> found],
                   out |-> get_twilight_times(d.year, d.month, d.day,
                                              twilight_type, found)]
    /\ UNCHANGED <<cacheVars, concVars, planetVars, astroVars, neoVars>>

--------------------------------------------------------------------------
(* Calls of a cached function compared by their cache keys *)

\* the names a decorated function can have
FuncNames == {"get_visible_planets", "get_planet_by_name"}

\* the first parameters of get_visible_planets, lines 323-324
Params == <<"latitude", "longitude">>

ArgValues == {32, 40}

\* the calls: the first parameters positionally, in order, and any of the
\* others by keyword, in any order
KeyCalls ==
    { c \in [func : FuncNames,
             args : UNION { [1..n -> ArgValues] : n \in 0..Len(Params) },
             kwargs : UNION { [1..n -> { <<Params[i], v>> :
                                           i \in 1..Len(Params),
                                           v \in ArgValues }] :
                              n \in 0..Len(Params) }] :
        /\ \A i, j \in 1..Len(c.kwargs) :
              i # j => c.kwargs[i][1] # c.kwargs[j][1]
        /\ \A i \in 1..Len(c.kwargs) :
              \A k \in 1..Len(c.args) : c.kwargs[i][1] # Params[k] }

\* the keys of two calls
CompareKeysCall ==
    /\ probe.fn = "none"
    /\ \E c1 \in KeyCalls, c2 \in KeyCalls :
         probe' = [fn |-> "generate_cache_key",
                   arg |-> [first |-> c1, second |-> c2],
                   out |-> [first |-> generate_cache_key(c1.func, c1.args,
                                                         c1.kwargs),
                            second |-> generate_cache_key(c2.func, c2.args,
                                                          c2.kwargs)]]
    /\ UNCHANGED <<cacheVars, concVars, planetVars, astroVars, neoVars>>

NextHelpers ==
    \/ IsPlanetVisibleCall
    \/ GetAzimuthDirectionCall
    \/ GetAltitudeDescriptionCall
    \/ GetMoonPhaseCall
    \/ GetNeoVisibilityCall
    \/ GetPlanetByNameCall
    \/ GetTwilightTimesCall
    \/ CompareKeysCall
    \/ Return

SpecHelpers == Init /\ [][NextHelpers]_vars

--------------------------------------------------------------------------
(* Claims about is_planet_visible *)

Visible == probe.fn = "is_planet_visible"

\* C11 as stated: is_planet_visible returns False for every altitude < 0,
\* whatever the magnitude and the other arguments are.
C11_BelowHorizonNeverVisible ==
    (Visible /\ probe.arg.altitude < 0) => probe.out = FALSE

\* C11, amended: is_planet_visible returns False for every altitude below
\* min_altitude, whatever magnitude and max_magnitude are; so it returns
\* False for every altitude < 0 when min_altitude >= 0 (0 is the default).
C11_BelowMinimumNeverVisible ==
    /\ (Visible /\ probe.arg.altitude < probe.arg.min_altitude)
          => probe.out = FALSE
    /\ (Visible /\ probe.arg.altitude < 0 /\ probe.arg.min_altitude >= 0)
          => probe.out = FALSE

C11_Witness ==
    /\ Visible
    /\ probe.arg.altitude = -1
    /\ probe.arg.min_altitude = HORIZON_ALTITUDE
    /\ probe.arg.magnitude = Some(-15)
    /\ probe.arg.max_magnitude = None
    /\ probe.out = FALSE

\* C12: is_planet_visible is True exactly when altitude >= min_altitude and,
\* if magnitude and max_magnitude are both given, magnitude <= max_magnitude
\* and (altitude >= 10 or magnitude + (10 - altitude) * 0.2 <= max_magnitude);
\* so an altitude >= 10 that reaches min_altitude, with magnitude <=
\* max_magnitude, gives True.
C12_ReferenceRule ==
    Visible =>
      LET a == probe.arg.altitude
          m == probe.arg.magnitude
          mn == probe.arg.min_altitude
          mx == probe.arg.max_magnitude
      IN /\ probe.out =
              (/\ a >= mn
               /\ (m.some /\ mx.some) =>
                     (/\ m.v <= mx.v
                      /\ (a >= 10 \/ m.v + (10 - a) * 2 <= mx.v)))
         /\ (a >= 10 /\ a >= mn /\ m.some /\ mx.some /\ m.v <= mx.v)
               => probe.out = TRUE

\* a body 3 degrees up that extinction alone hides: 0.0 + 7 * 0.2 > 1.0
C12_Witness ==
    /\ Visible
    /\ probe.arg.altitude = 3
    /\ probe.arg.min_altitude = HORIZON_ALTITUDE
    /\ probe.arg.magnitude = Some(0)
    /\ probe.arg.max_magnitude = Some(10)
    /\ probe.out = FALSE

\* m2 is at least as bright as m (None only against None)
AsBright(m2, m) == m2.some = m.some /\ (m.some => m2.v <= m.v)

\* C13: if is_planet_visible returns True for (altitude, magnitude), it
\* returns True for every higher altitude and brighter magnitude with the
\* same min_altitude and max_magnitude.
C13_Monotone ==
    (Visible /\ probe.out = TRUE) =>
      \A a2 \in Altitudes, m2 \in MagnitudeArgs :
         (a2 >= probe.arg.altitude /\ AsBright(m2, probe.arg.magnitude))
            => is_planet_visible(a2, m2, probe.arg.min_altitude,
                                 probe.arg.max_magnitude)

\* visible at 4 degrees only just: -0.2 + 6 * 0.2 = 1.0
C13_Witness ==
    /\ Visible
    /\ probe.arg.altitude = 4
    /\ probe.arg.min_altitude = HORIZON_ALTITUDE
    /\ probe.arg.magnitude = Some(-2)
    /\ probe.arg.max_magnitude = Some(10)
    /\ probe.out = TRUE

--------------------------------------------------------------------------
(* Claims about get_azimuth_direction *)

Direction == probe.fn = "get_azimuth_direction"

\* C14: get_azimuth_direction(a) equals get_azimuth_direction(a mod 360) for
\* every azimuth a, negative azimuths and azimuths >= 360 included.
C14_InvariantMod360 ==
    Direction => probe.out = get_azimuth_direction(probe.arg.azimuth % 720)

\* -30 degrees is told as 330 degrees is
C14_Witness ==
    /\ Direction
    /\ probe.arg.azimuth = -60
    /\ probe.out = "Northwest"

\* C15: get_azimuth_direction(0) is "North", get_azimuth_direction(90) is
\* "East", and get_azimuth_direction(45) is "Northeast", the compound of
\* North and East in clockwise order.
C15_PrincipalPoints ==
    Direction =>
      /\ probe.arg.azimuth = 0 => probe.out = "North"
      /\ probe.arg.azimuth = 180 => probe.out = "East"
      /\ probe.arg.azimuth = 90 => probe.out = "Northeast"

C15_Witness ==
    /\ Direction
    /\ probe.arg.azimuth = 180
    /\ probe.out = "East"

\* C16: for an azimuth midway between two adjacent compass points (22.5 + 45k
\* degrees) get_azimuth_direction returns the two points joined by a hyphen,
\* in clockwise order.
C16_MidwayIsComposite ==
    (Direction /\ (probe.arg.azimuth % 720) % 90 = 45) =>
      LET lower == 45 * ((probe.arg.azimuth % 720) \div 90)
      IN probe.out = AZIMUTH_DIRECTIONS(lower) \o "-"
                        \o AZIMUTH_DIRECTIONS(lower + 45)

--------------------------------------------------------------------------
(* Claims about get_altitude_description *)

Described == probe.fn = "get_altitude_description"

\* C17 as stated: altitude < 0 is "below the horizon", 0 to 15 "low", 15 to
\* 45 "at medium height", 45 to 75 "high", and "almost directly overhead"
\* only above 75, so that 75 itself is "high".  (15 and 45 may belong to
\* either neighbouring band.)
C17_OverheadOnlyAbove75 ==
    Described =>
      LET a == probe.arg.altitude IN
      /\ a < 0 => probe.out = "below the horizon"
      /\ (a >= 0 /\ a < 15) => probe.out = "low"
      /\ a = 15 => probe.out \in {"low", "at medium height"}
      /\ (a > 15 /\ a < 45) => probe.out = "at medium height"
      /\ a = 45 => probe.out \in {"at medium height", "high"}
      /\ (a > 45 /\ a <= 75) => probe.out = "high"
      /\ a > 75 => probe.out = "almost directly overhead"

\* C17, amended: every altitude has exactly one band, each band holding its
\* lower end and not its upper end: altitude < 0 "below the horizon", [0, 15)
\* "low", [15, 45) "at medium height", [45, 75) "high", and "almost directly
\* overhead" for altitude >= 75 (so 75 itself is "almost directly overhead").
C17_HalfOpenBands ==
    Described =>
      LET a == probe.arg.altitude IN
      /\ a < 0 <=> probe.out = "below the horizon"
      /\ (a >= 0 /\ a < 15) <=> probe.out = "low"
      /\ (a >= 15 /\ a < 45) <=> probe.out = "at medium height"
      /\ (a >= 45 /\ a < 75) <=> probe.out = "high"
      /\ a >= 75 <=> probe.out = "almost directly overhead"

C17_Witness ==
    /\ Described
    /\ probe.arg.altitude = 75
    /\ probe.out = "almost directly overhead"

--------------------------------------------------------------------------
(* Claims about get_moon_phase *)

MoonPhase == probe.fn = "get_moon_phase"

\* the unrounded phase percent of the call, in hundredths of a percent
Percent == PhasePercent(PhaseAngle(probe.arg.slon, probe.arg.mlon))

--------------------------------------------------------------------------
(* Claims about get_neo_visibility *)

NeoVisibility == probe.fn = "get_neo_visibility"

\* C19: get_neo_visibility returns visible=False with a reason naming the
\* number of days whenever |approach date - today| > 7, and visible=True
\* whenever the gap is <= 7 (7 included), for every latitude and longitude.
C19_SevenDayWindow ==
    NeoVisibility =>
      LET gap == Abs(probe.arg.approach_date - probe.arg.today) IN
      /\ gap > 7 => (/\ probe.out.visible = FALSE
                     /\ probe.out.reason[2] = gap)
      /\ gap <= 7 => probe.out.visible = TRUE

\* an approach seven days ago, seen from the south pole
C19_Witness ==
    /\ NeoVisibility
    /\ probe.arg.today = 30
    /\ probe.arg.approach_date = 23
    /\ probe.arg.latitude = -90
    /\ probe.out.visible = TRUE

\* the fixed table of compass directions and azimuths
CanonicalAzimuth ==
    [North |-> 0, Northeast |-> 45, East |-> 90, Southeast |-> 135,
     South |-> 180, Southwest |-> 225, West |-> 270, Northwest |-> 315]

\* C20: every visible=True verdict of get_neo_visibility has the azimuth
\* that the fixed table gives for the returned direction, whatever the
\* random draw.
C20_AzimuthMatchesDirection ==
    (NeoVisibility /\ probe.out.visible) =>
      /\ probe.out.direction \in DOMAIN CanonicalAzimuth
      /\ probe.out.azimuth = CanonicalAzimuth[probe.out.direction]

C20_Witness ==
    /\ NeoVisibility
    /\ probe.out.visible
    /\ probe.out.direction = "Northwest"
    /\ probe.out.azimuth = 315
    /\ probe.out.elevation = 60

\* the set of directions the observer's latitude fixes
DirectionSet(latitude) ==
    IF latitude > 45 THEN {"South", "Southeast", "Southwest"}
    ELSE IF latitude > 0
    THEN {"South", "Southeast", "Southwest", "East", "West"}
    ELSE IF latitude >= -45
    THEN {"North", "Northeast", "Northwest", "East", "West"}
    ELSE {"North", "Northeast", "Northwest"}

\* C21: in a visible=True verdict of get_neo_visibility the direction is one
\* of the set the observer's latitude fixes, whatever the longitude, and the
\* elevation lies in [20, 60].
C21_DirectionFromLatitudeSet ==
    (NeoVisibility /\ probe.out.visible) =>
      /\ probe.out.direction \in DirectionSet(probe.arg.latitude)
      /\ probe.out.elevation >= 20
      /\ probe.out.elevation <= 60

\* at latitude -45 east is still possible; the lowest elevation
C21_Witness ==
    /\ NeoVisibility
    /\ probe.out.visible
    /\ probe.arg.latitude = -45
    /\ probe.arg.longitude = -74
    /\ probe.out.direction = "East"
    /\ probe.out.elevation = 20

--------------------------------------------------------------------------
(* Claims about get_planet_by_name *)

ByName == probe.fn = "get_planet_by_name"

\* the catalog bodies whose name is the requested one but for case
Namesakes == { b \in Names(PLANETS) : Lower(b) = Lower(probe.arg.planet_name) }

\* C22: get_planet_by_name returns the record of the catalog body whose name
\* equals the requested name ignoring case, also when the body is below the
\* horizon, and returns None exactly when no record of that name was
\* produced (the body is not in the catalog or its computation failed).
C22_FoundIgnoringCase ==
    (ByName /\ ~probe.out.raised) =>
      /\ probe.out.found <=> \E b \in Namesakes : probe.arg.sky[b].ok
      /\ probe.out.found =>
            \E b \in Namesakes :
               probe.out.planet = PlanetData(b, probe.arg.sky[b],
                                             probe.arg.show_coords)

\* Venus, asked for as "vEnUs", is found 5 degrees below the horizon
C22_Witness ==
    /\ ByName
    /\ probe.arg.planet_name = "vEnUs"
    /\ probe.out.found
    /\ probe.out.planet.name = "Venus"
    /\ probe.out.planet.altitude = -500

--------------------------------------------------------------------------
(* Claims about the order and the fall-backs of get_visible_planets *)

\* the place of a body in the catalog
CatalogIndex(b) == CHOOSE i \in 1..Len(PLANETS) : PLANETS[i] = b

\* C23: the records returned by get_visible_planets are in the insertion
\* order of the catalog (Sun, Mercury, Venus, Mars, Jupiter, Saturn, Uranus,
\* Neptune, Moon, then the optional bodies): bodies that failed or were
\* filtered out are missing, the others keep their order, none is there twice.
C23_CatalogOrder ==
    /\ SubSeq(PLANETS, 1, 9) = <<"Sun", "Mercury", "Venus", "Mars", "Jupiter",
                                 "Saturn", "Uranus", "Neptune", "Moon">>
    /\ Returned =>
         /\ \A i \in 1..Len(resp.planets_data) :
               resp.planets_data[i].name \in Names(PLANETS)
         /\ \A i, j \in 1..Len(resp.planets_data) :
               i < j => CatalogIndex(resp.planets_data[i].name)
                           < CatalogIndex(resp.planets_data[j].name)

\* a filtered result of a catalog with optional bodies: Venus is missing,
\* Mercury, Mars and the last optional body are there
C23_Witness ==
    /\ Returned /\ req.above_horizon
    /\ Len(PLANETS) > 10
    /\ ~HasRecord("Venus")
    /\ HasRecord("Mercury") /\ HasRecord("Mars")
    /\ HasRecord(PLANETS[Len(PLANETS)])
    /\ Len(resp.planets_data) = Len(PLANETS) - 1

\* the static table of magnitudes, in hundredths
StaticMagnitude(b) ==
    CASE b = "Mercury" -> -50
      [] b = "Venus" -> -420
      [] b = "Mars" -> 120
      [] b = "Jupiter" -> -230
      [] b = "Saturn" -> 80
      [] b = "Uranus" -> 570
      [] b = "Neptune" -> 790
      [] OTHER -> 0

\* C24: a failed magnitude computation or constellation lookup neither drops
\* the body nor raises: its record is produced (the horizon filter apart)
\* with the magnitude of the static table, 0 for a body the table lacks, and
\* with constellation "Unknown" respectively.
C24_FallbacksKeepBody ==
    phase = "returned" =>
      /\ resp.raised => (~ParseTime(req.time).ok \/ ~req.setupOk)
      /\ ~resp.raised =>
           \A b \in Names(PLANETS) :
              ( /\ sky[b].ok
                /\ ~sky[b].magOk \/ ~sky[b].conOk
                /\ req.above_horizon => Round2(sky[b].alt) > 0 )
              => \E p \in Records :
                    /\ p.name = b
                    /\ (~sky[b].magOk /\ b \notin {"Sun", "Moon"})
                          => p.magnitude = StaticMagnitude(b)
                    /\ ~sky[b].conOk => p.constellation = "Unknown"

\* Venus without a computed magnitude, and a moon without magnitude or
\* constellation, are both returned
C24_Witness ==
    /\ Returned
    /\ \E p \in Records :
          /\ p.name = "Venus" /\ ~sky["Venus"].magOk
          /\ p.magnitude = -420
    /\ \E p \in Records :
          /\ p.name = "Titan" /\ ~sky["Titan"].magOk /\ ~sky["Titan"].conOk
          /\ p.magnitude = 0 /\ p.constellation = "Unknown"

--------------------------------------------------------------------------
(* Claims about get_twilight_times *)

Twilight == probe.fn = "get_twilight_times"

\* the code dark_twilight_day gives to a type of twilight
TwilightCode(twilight_type) ==
    CASE twilight_type = "civil" -> 3
      [] twilight_type = "nautical" -> 2
      [] twilight_type = "astronomical" -> 1

\* the day has the morning change into the twilight and the evening change
\* out of it
HasTransitions(found, twilight_type) ==
    /\ \E i \in 1..Len(found) :
          found[i].event = TwilightCode(twilight_type) /\ found[i].time < 43200
    /\ \E i \in 1..Len(found) :
          /\ found[i].event = TwilightCode(twilight_type) - 1
          /\ found[i].time >= 43200

\* C25: for the types civil, nautical and astronomical get_twilight_times
\* returns 'dawn' and 'dusk' whenever the day has the corresponding changes,
\* on every calendar date, the last day of a month included; they are absent
\* only when the computation fails.
C25_DawnAndDuskReturned ==
    ( /\ Twilight
      /\ probe.arg.twilight_type \in {"civil", "nautical", "astronomical"}
      /\ HasTransitions(probe.arg.found, probe.arg.twilight_type) )
    => /\ ~probe.out.error
       /\ probe.out.dawn.present
       /\ probe.out.dusk.present

--------------------------------------------------------------------------
(* Claims about the cache key *)

KeysCompared == probe.fn = "generate_cache_key"

\* the values a call binds to the parameters, "default" where it passes none
Binding(c) ==
    [ q \in { Params[i] : i \in 1..Len(Params) } |->
        IF \E i \in 1..Len(c.args) : Params[i] = q
        THEN <<"value", c.args[CHOOSE i \in 1..Len(c.args) : Params[i] = q]>>
        ELSE IF \E i \in 1..Len(c.kwargs) : c.kwargs[i][1] = q
        THEN <<"value",
               c.kwargs[CHOOSE i \in 1..Len(c.kwargs) : c.kwargs[i][1] = q][2]>>
        ELSE <<"default", 0>> ]

KeywordItems(c) == { c.kwargs[i] : i \in 1..Len(c.kwargs) }

\* C26 as stated: two calls of the same function binding the same values to
\* the same parameters have the same key, whatever the order of the keywords
\* and whether a value is passed positionally or by keyword; calls differing
\* in the function name or in a value have different keys.
C26_KeyIsCanonical ==
    KeysCompared =>
      LET c1 == probe.arg.first
          c2 == probe.arg.second
      IN (probe.out.first = probe.out.second)
            <=> (c1.func = c2.func /\ Binding(c1) = Binding(c2))

\* C26, amended: two calls of the same function that pass the same values
\* positionally and the same values by keyword have the same key, whatever
\* the order of the keywords; calls differing in the function name or in a
\* value have different keys, and so have two calls that pass a value
\* positionally in one and by keyword in the other.
C26_KeyPerPassingStyle ==
    KeysCompared =>
      LET c1 == probe.arg.first
          c2 == probe.arg.second
      IN /\ (c1.func = c2.func /\ c1.args = c2.args
               /\ KeywordItems(c1) = KeywordItems(c2))
            => probe.out.first = probe.out.second
         /\ (c1.func # c2.func \/ Binding(c1) # Binding(c2))
            => probe.out.first # probe.out.second
         /\ c1.args # c2.args => probe.out.first # probe.out.second

\* the same two keywords in either order
C26_Witness ==
    /\ KeysCompared
    /\ probe.arg.first.kwargs = << <<"latitude", 32>>, <<"longitude", 40>> >>
    /\ probe.arg.second.kwargs = << <<"longitude", 40>>, <<"latitude", 32>> >>
    /\ probe.arg.first.func = probe.arg.second.func
    /\ probe.out.first = probe.out.second


--------------------------------------------------------------------------
(* cache_result of astronomy_utils, astronomy_utils.py 327-402, run side   *)
(* by side with the one of planets_api on the same calls                   *)

ASTRO_CACHE_ENABLED == TRUE

ASTRO_CACHE_DURATION == 3600

\* seconds of the astronomy_utils clock per second of the planets_api
\* clock, so that one TTL of the one is one TTL of the other
Scale == ASTRO_CACHE_DURATION \div CACHE_DURATION

\* astronomy_utils.py 27-41: the modules and names the module imports
AstroImports ==
    {"math", "logging", "os", "json", "functools", "typing", "datetime",
     "numpy", "astropy", "skyfield"}

\* a module-level name resolves when the module imported it; using any
\* other name raises NameError
Bound(name) == name \in AstroImports

\* lines 383-402: line 399 evaluates hashlib.md5
astro_generate_cache_key(func_name, args, kwargs) ==
    IF Bound("hashlib")
    THEN [raised |-> FALSE, key |-> <<func_name, args, SortedItems(kwargs)>>]
    ELSE [raised |-> TRUE, key |-> NoKey]

\* lines 347-362: line 354 evaluates time.time() inside the try; the
\* NameError is an Exception and ends in the except branch like a failed
\* read
AstroLookup(f, t, readOk) ==
    IF ~f.exists THEN "absent"
    ELSE IF ~readOk THEN "unreadable"
    ELSE IF ~Parses(f) THEN "corrupt"
    ELSE IF ~Bound("time") THEN "unreadable"
    ELSE IF t - f.stamp <= ASTRO_CACHE_DURATION THEN "fresh"
    ELSE "stale"

\* lines 368-376: open(.., 'w') empties the file, then the dict of line
\* 370-373 is built, which evaluates time.time(), before json.dump writes
AstroStore(f, w, r, t, wr) ==
    IF wr = "open_fails" THEN f
    ELSE IF ~Bound("time") THEN Truncated
    ELSE IF wr = "dump_fails" THEN Partial(w, r)
    ELSE Complete(w, r, t)

AstroOutcome(fs, kind, error, result) ==
    [files |-> fs, kind |-> kind, error |-> error, result |-> result]

\* lines 338-378.  fs: the files of the directory, s: the call, t:
\* time.time(), w: the caller, out: what func(*args, **kwargs) does
astro_wrapper(fs, s, t, w, readOk, out, wr) ==
    IF ~ASTRO_CACHE_ENABLED
    THEN IF out = Raise
         THEN AstroOutcome(fs, "raise", "func", NoPayload)
         ELSE AstroOutcome(fs, "miss", "none", out)
    ELSE
    LET g == astro_generate_cache_key(FuncName, s.args, s.kwargs) IN
    IF g.raised
    THEN AstroOutcome(fs, "raise", "NameError", NoPayload)
    ELSE
    LET f == fs[g.key]
        look == AstroLookup(f, t, readOk)
    IN IF look = "fresh"
       THEN AstroOutcome(fs, "hit", "none", f.result)
       ELSE IF out = Raise
       THEN AstroOutcome(fs, "raise", "func", NoPayload)
       ELSE AstroOutcome([fs EXCEPT ![g.key] = AstroStore(f, w, out, t, wr)],
                         "miss", "none", out)

\* the same call made through both wrappers, with the same function
\* behaviour and the same file-system behaviour
TwinCall ==
    \E s \in CallShapes, readOk \in BOOLEAN, out \in Payloads \cup {Raise},
       wr \in WriteOutcomes :
       LET a == astro_wrapper(astroFiles, s, now * Scale, Main, readOk,
                              out, wr)
       IN /\ CacheStep(s, readOk, out, wr)
          /\ astroFiles' = a.files
          /\ astroRet' = [kind |-> a.kind, error |-> a.error,
                          result |-> a.result]
          /\ UNCHANGED concVars
          /\ UNCHANGED <<planetVars, probe, neoVars>>

NextTwin == TwinCall \/ Tick

SpecTwin == Init /\ [][NextTwin]_vars

\* C27: for every sequence of calls and clock advances the wrapper of
\* astronomy_utils decides as the one of planets_api does (hit, miss) and
\* returns the same result, raising only what the wrapped function raised.
C27_SameProtocol ==
    ret.kind # "none" =>
        /\ astroRet.kind = ret.kind
        /\ astroRet.result = ret.result
        /\ astroRet.error \in {"none", "func"}


C29_ClearedThenMiss ==
    [][ /\ ret'.kind = "cleared" =>
              /\ \A k \in Keys : files'[k] = NoFile
              /\ cache_dir => cache_dir'
        /\ (ret.kind = "cleared" /\ cache_dir /\ ret'.key \in Keys) =>
              /\ ret'.kind \in {"miss", "raise"}
              /\ ~ret'.readFailed
              /\ ret'.computed # NoPayload
              /\ calls'[ret'.key] = calls[ret'.key] + 1
              /\ (ret'.kind = "miss" /\ ret'.stored = "ok") =>
                     /\ IsComplete(files'[ret'.key])
                     /\ files'[ret'.key].result = ret'.result
                     /\ files'[ret'.key].stamp = now ]_vars

\* clear_cache has returned after removing the entries earlier calls wrote
C29_Witness ==
    /\ ret.kind = "cleared"
    /\ ret.count = Cardinality(Keys)
    /\ \A k \in Keys : calls[k] > 0 /\ files[k] = NoFile
    /\ cache_dir


--------------------------------------------------------------------------
(* neo_api.get_neo_feed and NEO_CACHE, neo_api.py 39-95 *)

\* line 41: 24 * 60 * 60
NEO_CACHE_DURATION == 86400

\* the clock of the NEO model stops here
MaxNeoTime == 172800

\* what the API can answer to a request
NeoResponses == {"neosA", "neosB"}

\* line 63 with '<=' for '<'
IsNeoFreshInclusive(cache_time, t) == t - cache_time <= NEO_CACHE_DURATION

\* line 63: datetime.now().timestamp() - cache_time < CACHE_DURATION
IsNeoFresh(cache_time, t) == t - cache_time < NEO_CACHE_DURATION

\* lines 59-95.  cache: NEO_CACHE, t: datetime.now().timestamp(),
\* response: the processed answer of the API, or Raise when requests.get,
\* raise_for_status, json or process_neo_data raises
get_neo_feed(cache, start_date, end_date, api_key, t, response) ==
    LET cache_key == NeoCacheKey(start_date, end_date, api_key) IN
    IF cache[cache_key].cached /\ IsNeoFresh(cache[cache_key].cache_time, t)
    THEN [cache |-> cache, kind |-> "served", key |-> cache_key,
          data |-> cache[cache_key].data, requested |-> FALSE]
    ELSE IF response = Raise
    THEN [cache |-> cache, kind |-> "raise", key |-> cache_key,
          data |-> NoPayload, requested |-> TRUE]
    ELSE [cache |-> [cache EXCEPT ![cache_key] =
                        [cached |-> TRUE, cache_time |-> t,
                         data |-> response]],
          kind |-> "fetched", key |-> cache_key, data |-> response,
          requested |-> TRUE]

\* one call of get_neo_feed (app.py 987)
GetNeoFeed ==
    \E c \in NeoCalls, response \in NeoResponses \cup {Raise} :
       LET o == get_neo_feed(NEO_CACHE, c[1], c[2], c[3], now, response) IN
       /\ NEO_CACHE' = o.cache
       /\ feed' = [kind |-> o.kind, key |-> o.key, at |-> now,
                   data |-> o.data, requested |-> o.requested]
       /\ UNCHANGED <<cacheVars, concVars, planetVars, probe, astroVars>>

\* time passes between calls: a second less than a day, or a day
NeoTick ==
    /\ \E d \in {NEO_CACHE_DURATION - 1, NEO_CACHE_DURATION} :
          /\ now + d <= MaxNeoTime
          /\ now' = now + d
    /\ UNCHANGED <<files, calls, ret, cache_dir>>
    /\ UNCHANGED <<concVars, planetVars, probe, astroVars, neoVars>>

NextNeo == GetNeoFeed \/ NeoTick

SpecNeo == Init /\ [][NextNeo]_vars

\* C30: a call of get_neo_feed is served from NEO_CACHE, without a request,
\* exactly when the entry of its key is less than 24 hours old; a failing
\* request raises and leaves NEO_CACHE as it was, stale entry included; a
\* successful request replaces the entry of the call's key and no other.
C30_NeoCacheProtocol ==
    [][ feed' # feed =>
          LET k == feed'.key
              e == NEO_CACHE[k]
          IN /\ feed'.kind = "served" <=>
                   (e.cached /\ now - e.cache_time < 24 * 60 * 60)
             /\ feed'.kind = "served" =>
                   /\ ~feed'.requested
                   /\ feed'.data = e.data
                   /\ NEO_CACHE' = NEO_CACHE
             /\ feed'.kind = "raise" =>
                   /\ feed'.requested
                   /\ NEO_CACHE' = NEO_CACHE
             /\ feed'.kind = "fetched" =>
                   /\ feed'.requested
                   /\ NEO_CACHE'[k] = [cached |-> TRUE, cache_time |-> now,
                                       data |-> feed'.data]
                   /\ \A q \in NeoKeys \ {k} : NEO_CACHE'[q] = NEO_CACHE[q]
      ]_vars

\* a request failed for a key whose entry is exactly 24 hours old: the call
\* raised and the entry is still in NEO_CACHE
C30_Witness ==
    /\ feed.kind = "raise"
    /\ NEO_CACHE[feed.key].cached
    /\ feed.at - NEO_CACHE[feed.key].cache_time = NEO_CACHE_DURATION
    /\ Cardinality(NeoKeys) = Cardinality(NeoCalls)

==========================================================================
